---- MODULE Spec2Model ----
(***************************************************************************)
(* Model of src/app.py: the /tts request handler (tts_api), the usage      *)
(* statistics helpers (load_stats, save_stats) and the admin panel's read  *)
(* of the statistics file.                                                 *)
(*                                                                         *)
(* Python strings are modelled as sequences of one-character strings, so   *)
(* that lower(), replace(), strip(), split(), startswith() and the `in`    *)
(* test are computed character by character as CPython computes them.      *)
(***************************************************************************)
EXTENDS Integers, Sequences, FiniteSets, TLC

\* ------------------------------------------------------------------ bounds

\* Number of request workers (threads) that may run tts_api concurrently.
NumWorkers == 2

\* Largest `total` a stored record may hold when SpecSeq admits a request.
MaxTotal == 3

\* Longest voice catalog returned by edge_tts.list_voices() in SpecResolve.
MaxCatalog == 3

Workers == 1..NumWorkers

\* ----------------------------------------------------------- Python strings

UpperAZ == <<"A", "B", "C", "D", "E", "F", "G", "H", "I", "J", "K", "L", "M",
             "N", "O", "P", "Q", "R", "S", "T", "U", "V", "W", "X", "Y", "Z">>
LowerAZ == <<"a", "b", "c", "d", "e", "f", "g", "h", "i", "j", "k", "l", "m",
             "n", "o", "p", "q", "r", "s", "t", "u", "v", "w", "x", "y", "z">>

\* str.lower() on one character
LowerChar(c) ==
    IF \E i \in 1..26 : UpperAZ[i] = c
    THEN LowerAZ[CHOOSE i \in 1..26 : UpperAZ[i] = c]
    ELSE c

\* str.lower()
Lower(s) == [i \in 1..Len(s) |-> LowerChar(s[i])]

\* s.startswith(p)
StartsWith(s, p) == Len(p) <= Len(s) /\ SubSeq(s, 1, Len(p)) = p

\* `sub in s` for two strings
Contains(sub, s) ==
    \E i \in 0..(Len(s) - Len(sub)) : SubSeq(s, i + 1, i + Len(sub)) = sub

\* s.replace(pat, ""): one left-to-right pass over non-overlapping matches
RECURSIVE RemoveAll(_, _)
RemoveAll(s, pat) ==
    IF Len(s) < Len(pat) THEN s
    ELSE IF SubSeq(s, 1, Len(pat)) = pat
         THEN RemoveAll(SubSeq(s, Len(pat) + 1, Len(s)), pat)
         ELSE <<Head(s)>> \o RemoveAll(Tail(s), pat)

IsSpace(c) == c = " "

RECURSIVE LStrip(_)
LStrip(s) == IF s # <<>> /\ IsSpace(Head(s)) THEN LStrip(Tail(s)) ELSE s

RECURSIVE RStrip(_)
RStrip(s) ==
    IF s # <<>> /\ IsSpace(s[Len(s)]) THEN RStrip(SubSeq(s, 1, Len(s) - 1)) ELSE s

\* str.strip()
Strip(s) == RStrip(LStrip(s))

\* s.split(sep)[-1] for a one-character separator
RECURSIVE LastSegment(_, _)
LastSegment(s, sep) ==
    IF s = <<>> THEN <<>>
    ELSE IF s[Len(s)] = sep THEN <<>>
    ELSE LastSegment(SubSeq(s, 1, Len(s) - 1), sep) \o <<s[Len(s)]>>

\* A value read from the request: None (given = FALSE) or a string.
None == [given |-> FALSE, s |-> <<>>]
Str(s) == [given |-> TRUE, s |-> s]

\* Python truthiness of an optional string: None and "" are falsy.
Truthy(p) == p.given /\ p.s # <<>>

\* `a or b`
PyOr(a, b) == IF Truthy(a) THEN a ELSE b

\* ------------------------------------------------------------ voice catalog

NEURAL == <<"n", "e", "u", "r", "a", "l">>

\* selected_voice = "en-US-AriaNeural"
DefaultVoice ==
    <<"e", "n", "-", "U", "S", "-", "A", "r", "i", "a", "N", "e", "u", "r", "a", "l">>

Voice(short, gender, locale) ==
    [ShortName |-> short, Gender |-> gender, Locale |-> locale]

VAria == Voice(DefaultVoice, <<"F", "e", "m", "a", "l", "e">>, <<"e", "n", "-", "U", "S">>)
VGuy == Voice(<<"e", "n", "-", "U", "S", "-", "G", "u", "y", "N", "e", "u", "r", "a", "l">>,
              <<"M", "a", "l", "e">>, <<"e", "n", "-", "U", "S">>)
VSonia == Voice(<<"e", "n", "-", "G", "B", "-", "S", "o", "n", "i", "a", "N", "e", "u", "r", "a", "l">>,
                <<"F", "e", "m", "a", "l", "e">>, <<"e", "n", "-", "G", "B">>)
VAlonso == Voice(<<"e", "s", "-", "U", "S", "-", "A", "l", "o", "n", "s", "o", "N", "e", "u", "r", "a", "l">>,
                 <<"M", "a", "l", "e">>, <<"e", "s", "-", "U", "S">>)
VRyan == Voice(<<"e", "n", "-", "G", "B", "-", "R", "y", "a", "n", "N", "e", "u", "r", "a", "l">>,
               <<"M", "a", "l", "e">>, <<"e", "n", "-", "G", "B">>)

\* the voices list_voices may return
VoicePool == {VAria, VGuy, VSonia, VAlonso, VRyan}

\* ---------------------------------------------------------- voice selection

\* clean = voice_param.lower().replace("neural", "").strip()
Clean(voice_param) == Strip(RemoveAll(Lower(voice_param), NEURAL))

\* SmartMatch without the break: the last match wins
RECURSIVE SmartMatchNoBreak(_, _, _)
SmartMatchNoBreak(clean, all_voices, i) ==
    IF i > Len(all_voices) THEN DefaultVoice
    ELSE LET rest == SmartMatchNoBreak(clean, all_voices, i + 1)
         IN IF Contains(clean, Lower(all_voices[i].ShortName)) /\ rest = DefaultVoice
            THEN all_voices[i].ShortName
            ELSE rest

\* for v in all_voices: if clean in v['ShortName'].lower(): ...; break
RECURSIVE SmartMatch(_, _, _)
SmartMatch(clean, all_voices, i) ==
    IF i > Len(all_voices) THEN DefaultVoice
    ELSE IF Contains(clean, Lower(all_voices[i].ShortName))
         THEN all_voices[i].ShortName
         ELSE SmartMatch(clean, all_voices, i + 1)

LangTest(v, lang) == StartsWith(Lower(v.Locale), Lower(lang))
GenderTest(v, gender) == Lower(v.Gender) = Lower(gender)
CountryTest(v, country) == Lower(LastSegment(v.Locale, "-")) = Lower(country)

\* FilterCandidates with every comprehension reading all_voices instead of
\* candidates: the last supplied filter alone decides
FilterCandidatesUnchained(all_voices, lang, gender, country) ==
    LET c0 == all_voices
        KeepLang(v) == LangTest(v, lang.s)
        KeepGender(v) == GenderTest(v, gender.s)
        KeepCountry(v) == CountryTest(v, country.s)
        c1 == IF Truthy(lang) THEN SelectSeq(c0, KeepLang) ELSE c0
        c2 == IF Truthy(gender) THEN SelectSeq(c0, KeepGender) ELSE c1
        c3 == IF Truthy(country) THEN SelectSeq(c0, KeepCountry) ELSE c2
    IN c3

\* the three successive list comprehensions of the filter branch
FilterCandidates(all_voices, lang, gender, country) ==
    LET c0 == all_voices
        KeepLang(v) == LangTest(v, lang.s)
        KeepGender(v) == GenderTest(v, gender.s)
        KeepCountry(v) == CountryTest(v, country.s)
        c1 == IF Truthy(lang) THEN SelectSeq(c0, KeepLang) ELSE c0
        c2 == IF Truthy(gender) THEN SelectSeq(c1, KeepGender) ELSE c1
        c3 == IF Truthy(country) THEN SelectSeq(c2, KeepCountry) ELSE c2
    IN c3

\* The outcome of voice selection: a voice id, or an exception raised outside
\* the handler's try block.
Selected(v) == [raised |-> FALSE, voice |-> v]
Raised == [raised |-> TRUE, voice |-> <<>>]

\* random.choice(candidates)['ShortName']: any element; IndexError when empty
RandomChoice(candidates) ==
    IF candidates = <<>> THEN {Raised}
    ELSE {Selected(candidates[i].ShortName) : i \in 1..Len(candidates)}

\* `if candidates:`
HasCandidates(candidates) == candidates # <<>>

\* `elif lang or gender or country:` branch
FilterBranch(all_voices, lang, gender, country) ==
    LET candidates == FilterCandidates(all_voices, lang, gender, country)
    IN IF HasCandidates(candidates) THEN RandomChoice(candidates)
       ELSE {Selected(DefaultVoice)}

\* `if voice_param:` branch
ExplicitBranch(all_voices, voice_param) ==
    {Selected(SmartMatch(Clean(voice_param.s), all_voices, 1))}

\* Step 4 of tts_api: the set of outcomes voice selection can produce.
SelectVoice(all_voices, voice_param, lang, gender, country) ==
    IF Truthy(voice_param) THEN ExplicitBranch(all_voices, voice_param)
    ELSE IF Truthy(lang) \/ Truthy(gender) \/ Truthy(country)
         THEN FilterBranch(all_voices, lang, gender, country)
         ELSE {Selected(DefaultVoice)}


\* -------------------------------------------------------- usage statistics

\* {"total": 0, "api": 0, "ui": 0}
Zero == [total |-> 0, api |-> 0, ui |-> 0]

\* number of decimal digits json.dump writes for a counter
Digits(n) == IF n < 10 THEN 1 ELSE IF n < 100 THEN 2 ELSE 3

\* length of json.dump(stats): {"total": T, "api": A, "ui": U}
RecLen(rec) == 28 + Digits(rec.total) + Digits(rec.api) + Digits(rec.ui)

\* Contents of STATS_FILE.  kind is
\*   "absent"    the file does not exist
\*   "empty"     zero bytes (just truncated by open(..., 'w'))
\*   "record"    one complete JSON object written by json.dump
\*   "corrupt"   bytes json.load cannot parse (a partial or overlaid write)
\*   "malformed" valid JSON that is not a counter object
Absent == [kind |-> "absent", rec |-> Zero, len |-> 0]
Empty == [kind |-> "empty", rec |-> Zero, len |-> 0]
Record(rec) == [kind |-> "record", rec |-> rec, len |-> RecLen(rec)]
Corrupt(n) == [kind |-> "corrupt", rec |-> Zero, len |-> n]
Malformed == [kind |-> "malformed", rec |-> Zero, len |-> 2]

\* load_stats that never finds the file: always the default counters
LoadStatsNoFile(f, readable) ==
    IF f.kind = "malformed"
    THEN [shaped |-> FALSE, rec |-> Zero, swallowed |-> FALSE]
    ELSE [shaped |-> TRUE, rec |-> Zero, swallowed |-> FALSE]

\* load_stats(): what the call returns for a file content.  readable is
\* FALSE when open(STATS_FILE, 'r') raises.  shaped is FALSE when the value
\* returned is not a dict with the three counters; swallowed is TRUE when
\* the bare except of load_stats ran.
LoadStats(f, readable) ==
    IF f.kind = "absent"
    THEN [shaped |-> TRUE, rec |-> Zero, swallowed |-> FALSE]
    ELSE IF ~readable \/ f.kind \in {"empty", "corrupt"}
    THEN [shaped |-> TRUE, rec |-> Zero, swallowed |-> TRUE]
    ELSE IF f.kind = "malformed"
    THEN [shaped |-> FALSE, rec |-> Zero, swallowed |-> FALSE]
    ELSE [shaped |-> TRUE, rec |-> f.rec, swallowed |-> FALSE]

\* Bump whose else branch forgets stats["ui"] += 1
BumpForgetsUi(rec, m) ==
    IF m = "API"
    THEN [total |-> rec.total + 1, api |-> rec.api + 1, ui |-> rec.ui]
    ELSE [total |-> rec.total + 1, api |-> rec.api, ui |-> rec.ui]

\* stats["total"] += 1; if mode == "API": stats["api"] += 1 else: stats["ui"] += 1
Bump(rec, m) ==
    IF m = "API"
    THEN [total |-> rec.total + 1, api |-> rec.api + 1, ui |-> rec.ui]
    ELSE [total |-> rec.total + 1, api |-> rec.api, ui |-> rec.ui + 1]

\* open(STATS_FILE, 'w'): creates or truncates the file
Truncate(f) == Empty

\* json.dump(stats, f) and the close of the with block: the record is written
\* at offset 0 of the file as it is at that moment; bytes beyond the record
\* (left there by a longer write of another request) stay.
Overwrite(f, rec) ==
    IF f.len > RecLen(rec) THEN Corrupt(f.len) ELSE Record(rec)

\* a write that raises: nothing reached the file, or a proper prefix did
FailedWrite(f, rec) ==
    {f, Corrupt(IF f.len > RecLen(rec) - 1 THEN f.len ELSE RecLen(rec) - 1)}

\* save_stats without its try/except: a failure leaves the function
SaveStatsUnguarded(failed) == failed

\* `except: pass` of save_stats: no exception leaves the function
SaveStatsPropagates(failed) == FALSE


\* ------------------------------------------------------------------- state

VARIABLES
    store,      \* contents of STATS_FILE
    pc,         \* per worker: where its tts_api call stands
    req,        \* per worker: text, voice_param, lang, gender, country
    mode,       \* per worker: "API" or "UI"
    stats,      \* per worker: the local `stats` dict of save_stats (Zero outside
                \* the call)
    eng,        \* per worker: its calls into edge_tts and what they returned
    sel,        \* per worker: selected_voice
    tmp,        \* per worker: its NamedTemporaryFile: "none", "exists", "removed"
    resp,       \* per worker: the HTTP response returned
    fault,      \* history, per worker: the step of save_stats that raised
    overlapped, \* history: two save_stats calls were in progress at once
    settled,    \* history: contents of STATS_FILE when the server started or
                \* when the last answered request was retired
    last        \* history: the last request retired

vars == <<store, pc, req, mode, stats, eng, sel, tmp, resp, fault, overlapped, settled, last>>

NoReq == [text |-> None, voice |-> None, lang |-> None, gender |-> None, country |-> None]
NoCatalog == [ok |-> FALSE, voices |-> <<>>]
NoEng == [list |-> 0, render |-> 0, catalog |-> NoCatalog, synth |-> "none"]
NoResp == [status |-> 0, body |-> "", voice |-> <<>>]

\* jsonify({"error": "Missing 'text' parameter"}), 400
MissingTextResponse == [status |-> 400, body |-> "Missing 'text' parameter", voice |-> <<>>]
\* jsonify({"error": "TTS Engine unavailable"}), 500
UnavailableResponse == [status |-> 500, body |-> "TTS Engine unavailable", voice |-> <<>>]
\* jsonify({"error": str(e)}), 500
ErrorResponse(outcome) == [status |-> 500, body |-> outcome, voice |-> <<>>]
\* Response(data, mimetype="audio/mpeg", headers={..., "X-Voice-Used": selected_voice})
AudioResponse(v) == [status |-> 200, body |-> "audio/mpeg", voice |-> v]
\* an exception that leaves tts_api: Flask answers 500
UnhandledResponse == [status |-> 500, body |-> "Internal Server Error", voice |-> <<>>]

\* ------------------------------------------------------------------ inputs

Hi == <<"H", "i">>

\* request.host
Host == <<"a", ".", "i", "o">>
OwnPage == <<"h", "t", "t", "p", ":", "/", "/", "a", ".", "i", "o", "/">>
OtherPage == <<"h", "t", "t", "p", ":", "/", "/", "b", ".", "i", "o", "/">>

\* where text and voice come from (query string, form body) and the Referer
\* header of the requests tried
Transports ==
    { [args_text |-> None, form_text |-> None, voice_in_form |-> FALSE, referrer |-> None],
      [args_text |-> Str(<<>>), form_text |-> Str(<<>>), voice_in_form |-> FALSE, referrer |-> Str(OwnPage)],
      [args_text |-> Str(Hi), form_text |-> None, voice_in_form |-> FALSE, referrer |-> None],
      [args_text |-> Str(<<>>), form_text |-> Str(Hi), voice_in_form |-> TRUE, referrer |-> Str(OwnPage)],
      [args_text |-> Str(Hi), form_text |-> None, voice_in_form |-> FALSE, referrer |-> Str(OtherPage)],
      [args_text |-> Str(Hi), form_text |-> Str(<<>>), voice_in_form |-> FALSE, referrer |-> Str(<<>>)] }

NoParams == [voice |-> None, lang |-> None, gender |-> None, country |-> None]

\* the parameter combinations tried by Spec and by SpecSeq
RaceParams == { NoParams }
HandlerParams ==
    { NoParams,
      [voice |-> Str(<<"G", "u", "y">>), lang |-> Str(<<"e", "s">>), gender |-> None, country |-> None],
      [voice |-> None, lang |-> Str(<<"e", "n">>), gender |-> Str(<<"f", "e", "m", "a", "l", "e">>), country |-> None] }

\* the catalog list_voices returns in Spec and in SpecSeq
HandlerCatalogs == { <<VAria, VGuy, VSonia>> }

\* every catalog of at most MaxCatalog distinct voices of the pool, in every order
ResolveCatalogs ==
    UNION { { c \in [1..n -> VoicePool] : \A i, j \in 1..n : c[i] = c[j] => i = j }
            : n \in 0..MaxCatalog }

ResolveVoices ==
    { None, Str(<<>>), Str(<<"A", "r", "i", "a">>), Str(<<"a", "r", "i", "a", " ", "N", "e", "u", "r", "a", "l", " ">>), Str(<<"a", "d", "r", "i">>),
      Str(<<"N", "E", "U", "R", "A", "L">>), Str(<<"U", "S">>), Str(<<" ", "g", "u", "y">>) }
ResolveLangs == { None, Str(<<>>), Str(<<"e", "n">>), Str(<<"E">>), Str(<<"f", "r">>) }
ResolveGenders == { None, Str(<<"f", "e", "m", "a", "l", "e">>), Str(<<"M", "A", "L", "E">>) }
ResolveCountries == { None, Str(<<"u", "s">>), Str(<<"G", "B">>), Str(<<"S">>) }

ResolveParams ==
    [voice : ResolveVoices, lang : ResolveLangs, gender : ResolveGenders,
     country : ResolveCountries]

\* ----------------------------------------------------------------- tts_api

\* `if text is None:` in place of `if not text:`
MissingTextNoneOnly(text) == ~text.given

\* `if not text:`
MissingText(text) == ~Truthy(text)

\* mode = "API"; if request.referrer and request.host in request.referrer: mode = "UI"
UsageMode(referrer, host) ==
    IF Truthy(referrer) /\ Contains(host, referrer.s) THEN "UI" ELSE "API"

\* Steps 1 and 2 up to the call of save_stats: read the parameters, validate
\* text, classify the request.
Request(r, Params) ==
    /\ pc[r] = "idle"
    /\ \E t \in Transports, p \in Params :
          LET text == PyOr(t.args_text, t.form_text)
              args_voice == IF t.voice_in_form THEN None ELSE p.voice
              form_voice == IF t.voice_in_form THEN p.voice ELSE None
              voice_param == PyOr(args_voice, form_voice)
              referrer == t.referrer
          IN /\ req' = [req EXCEPT ![r] = [text |-> text, voice |-> voice_param,
                                           lang |-> p.lang, gender |-> p.gender,
                                           country |-> p.country]]
             /\ IF MissingText(text)
                THEN /\ resp' = [resp EXCEPT ![r] = MissingTextResponse]
                     /\ pc' = [pc EXCEPT ![r] = "done"]
                     /\ mode' = mode
                ELSE /\ mode' = [mode EXCEPT ![r] = UsageMode(referrer, Host)]
                     /\ pc' = [pc EXCEPT ![r] = "stats_load"]
                     /\ resp' = resp
    /\ UNCHANGED <<store, stats, eng, sel, tmp, fault, overlapped, settled, last>>

\* where tts_api continues when save_stats is over
AfterSaveStats(failed) == IF SaveStatsPropagates(failed) THEN "done" ELSE "fetch"

\* what tts_api has answered when save_stats is over
RespAfterSaveStats(r, failed) ==
    IF SaveStatsPropagates(failed) THEN [resp EXCEPT ![r] = UnhandledResponse] ELSE resp

\* worker o is between the load_stats and the end of the write of its save_stats
InIncrement(o) == pc[o] \in {"stats_open", "stats_write"}

\* save_stats, lines 34-39: stats = load_stats() and the increments.
\* Readable holds TRUE (the file can be opened for reading) and, where the
\* specification lets the read fail, FALSE.
StatsLoad(r, Readable) ==
    /\ pc[r] = "stats_load"
    /\ \E readable \in Readable :
          LET l == LoadStats(store, readable)
          IN IF l.shaped
             THEN /\ stats' = [stats EXCEPT ![r] = Bump(l.rec, mode[r])]
                  /\ pc' = [pc EXCEPT ![r] = "stats_open"]
                  /\ fault' = [fault EXCEPT ![r] = IF l.swallowed THEN "load" ELSE "none"]
                  /\ overlapped' = (overlapped \/ \E o \in Workers \ {r} : InIncrement(o))
                  /\ resp' = resp
             ELSE /\ stats' = stats
                  /\ pc' = [pc EXCEPT ![r] = AfterSaveStats(TRUE)]
                  /\ fault' = [fault EXCEPT ![r] = "update"]
                  /\ overlapped' = overlapped
                  /\ resp' = RespAfterSaveStats(r, TRUE)
    /\ UNCHANGED <<store, req, mode, eng, sel, tmp, settled, last>>

\* save_stats, line 41: open(STATS_FILE, 'w')
StatsOpen(r) ==
    /\ pc[r] = "stats_open"
    /\ \E opened \in BOOLEAN :
          IF opened
          THEN /\ store' = Truncate(store)
               /\ pc' = [pc EXCEPT ![r] = "stats_write"]
               /\ UNCHANGED <<fault, resp, stats>>
          ELSE /\ store' = store
               /\ fault' = [fault EXCEPT ![r] = "open"]
               /\ pc' = [pc EXCEPT ![r] = AfterSaveStats(TRUE)]
               /\ stats' = [stats EXCEPT ![r] = Zero]
               /\ resp' = RespAfterSaveStats(r, TRUE)
    /\ UNCHANGED <<req, mode, eng, sel, tmp, overlapped, settled, last>>

\* save_stats, line 42 and the end of the with block: json.dump and close
StatsWrite(r) ==
    /\ pc[r] = "stats_write"
    /\ \E written \in BOOLEAN :
          IF written
          THEN /\ store' = Overwrite(store, stats[r])
               /\ pc' = [pc EXCEPT ![r] = AfterSaveStats(FALSE)]
               /\ resp' = RespAfterSaveStats(r, FALSE)
               /\ fault' = fault
          ELSE /\ store' \in FailedWrite(store, stats[r])
               /\ fault' = [fault EXCEPT ![r] = "write"]
               /\ pc' = [pc EXCEPT ![r] = AfterSaveStats(TRUE)]
               /\ resp' = RespAfterSaveStats(r, TRUE)
    /\ stats' = [stats EXCEPT ![r] = Zero]
    /\ UNCHANGED <<req, mode, eng, sel, tmp, overlapped, settled, last>>

\* the except branch of step 3 without its return
AfterListVoicesNoReturn(ok) == "generate"

\* where tts_api continues after run_async(edge_tts.list_voices())
AfterListVoices(ok) == IF ok THEN "generate" ELSE "done"

\* Steps 3 and 4: fetch the catalog, select the voice.
FetchVoices(r, Catalogs) ==
    /\ pc[r] = "fetch"
    /\ \E got \in {NoCatalog} \cup {[ok |-> TRUE, voices |-> c] : c \in Catalogs} :
          /\ eng' = [eng EXCEPT ![r].list = 1, ![r].catalog = got]
          /\ IF ~got.ok
             THEN /\ pc' = [pc EXCEPT ![r] = AfterListVoices(FALSE)]
                  /\ resp' = [resp EXCEPT ![r] = UnavailableResponse]
                  /\ sel' = sel
             ELSE \E o \in SelectVoice(got.voices, req[r].voice, req[r].lang,
                                       req[r].gender, req[r].country) :
                     IF o.raised
                     THEN /\ pc' = [pc EXCEPT ![r] = "done"]
                          /\ resp' = [resp EXCEPT ![r] = UnhandledResponse]
                          /\ sel' = sel
                     ELSE /\ pc' = [pc EXCEPT ![r] = AfterListVoices(TRUE)]
                          /\ sel' = [sel EXCEPT ![r] = o.voice]
                          /\ resp' = resp
    /\ UNCHANGED <<store, req, mode, stats, tmp, fault, overlapped, settled, last>>

\* what step 5 can meet: NamedTemporaryFile raises, the render raises
\* (Communicate rejects the voice or the rate, or communicate.save fails),
\* reading the file raises, os.remove raises, or all succeed
SynthOutcomes == {"mktemp_error", "render_error", "read_error", "remove_error", "ok"}

\* the outcomes of step 5 tried by Spec
RaceOutcomes == {"render_error", "ok"}

\* the temporary file when step 5 is over: os.remove is the last statement of
\* the try block before the return and runs only when every statement before
\* it succeeded
TmpAfter(outcome) ==
    IF outcome = "mktemp_error" THEN "none"
    ELSE IF outcome = "ok" THEN "removed"
    ELSE "exists"

\* Step 5: render to a temporary file, read it, remove it, respond.
GenerateAudio(r, Outcomes) ==
    /\ pc[r] = "generate"
    /\ \E outcome \in Outcomes :
          /\ tmp' = [tmp EXCEPT ![r] = TmpAfter(outcome)]
          /\ eng' = [eng EXCEPT ![r].render = IF outcome = "mktemp_error" THEN 0 ELSE 1,
                                ![r].synth = outcome]
          /\ resp' = [resp EXCEPT ![r] = IF outcome = "ok" THEN AudioResponse(sel[r])
                                         ELSE ErrorResponse(outcome)]
    /\ pc' = [pc EXCEPT ![r] = "done"]
    /\ UNCHANGED <<store, req, mode, stats, sel, fault, overlapped, settled, last>>

\* The worker of a request that was answered takes the next one: the locals
\* of the call are gone, the response has been sent.
NoLast == [valid |-> FALSE, req |-> NoReq, eng |-> NoEng, fault |-> "none",
           tmp |-> "none", resp |-> NoResp]

Finish(r) ==
    /\ pc[r] = "done"
    /\ last' = [valid |-> TRUE, req |-> req[r], eng |-> eng[r], fault |-> fault[r],
                tmp |-> tmp[r], resp |-> resp[r]]
    /\ pc' = [pc EXCEPT ![r] = "idle"]
    /\ req' = [req EXCEPT ![r] = NoReq]
    /\ mode' = [mode EXCEPT ![r] = "API"]
    /\ stats' = [stats EXCEPT ![r] = Zero]
    /\ eng' = [eng EXCEPT ![r] = NoEng]
    /\ sel' = [sel EXCEPT ![r] = DefaultVoice]
    /\ tmp' = [tmp EXCEPT ![r] = "none"]
    /\ resp' = [resp EXCEPT ![r] = NoResp]
    /\ fault' = [fault EXCEPT ![r] = "none"]
    /\ settled' = store
    /\ UNCHANGED <<store, overlapped>>

\* ---------------------------------------------------------- specifications

\* The server starts with no request in progress; the statistics file is
\* absent, holds the zero record, or holds JSON of another shape.
Init ==
    /\ store \in {Absent, Record(Zero), Malformed}
    /\ overlapped = FALSE
    /\ last = NoLast
    /\ pc = [r \in Workers |-> "idle"]
    /\ req = [r \in Workers |-> NoReq]
    /\ mode = [r \in Workers |-> "API"]
    /\ stats = [r \in Workers |-> Zero]
    /\ fault = [r \in Workers |-> "none"]
    /\ settled = store
    /\ eng = [r \in Workers |-> NoEng]
    /\ sel = [r \in Workers |-> DefaultVoice]
    /\ tmp = [r \in Workers |-> "none"]
    /\ resp = [r \in Workers |-> NoResp]

\* Spec: every worker serves one request, the workers run concurrently.
Next ==
    \E r \in Workers :
        \/ Request(r, RaceParams)
        \/ StatsLoad(r, {TRUE})
        \/ StatsOpen(r)
        \/ StatsWrite(r)
        \/ FetchVoices(r, HandlerCatalogs)
        \/ GenerateAudio(r, RaceOutcomes)

Spec == Init /\ [][Next]_vars

\* SpecSeq: the requests arrive one after the other; a worker takes a request
\* when no other request is in progress and the store has room to count it.
Quiet == \A o \in Workers : pc[o] = "idle"
Room == store.rec.total < MaxTotal

NextSeq ==
    \E r \in Workers :
        \/ Quiet /\ Room /\ Request(r, HandlerParams)
        \/ StatsLoad(r, BOOLEAN)
        \/ StatsOpen(r)
        \/ StatsWrite(r)
        \/ FetchVoices(r, HandlerCatalogs)
        \/ GenerateAudio(r, SynthOutcomes)
        \/ Finish(r)

SpecSeq == Init /\ [][NextSeq]_vars

\* SpecResolve: voice selection alone.  Worker 1 is the first request of the
\* server, has passed save_stats (API mode, absent store) and is about to
\* fetch the catalog, with every combination of the resolver's parameters.
InitResolve ==
    /\ store = Record(Bump(Zero, "API"))
    /\ settled = Absent
    /\ overlapped = FALSE
    /\ last = NoLast
    /\ pc = [r \in Workers |-> IF r = 1 THEN "fetch" ELSE "idle"]
    /\ \E p \in ResolveParams :
          req = [r \in Workers |->
                   IF r = 1 THEN [text |-> Str(Hi), voice |-> p.voice, lang |-> p.lang,
                                  gender |-> p.gender, country |-> p.country]
                   ELSE NoReq]
    /\ mode = [r \in Workers |-> "API"]
    /\ stats = [r \in Workers |-> Zero]
    /\ fault = [r \in Workers |-> "none"]
    /\ eng = [r \in Workers |-> NoEng]
    /\ sel = [r \in Workers |-> DefaultVoice]
    /\ tmp = [r \in Workers |-> "none"]
    /\ resp = [r \in Workers |-> NoResp]

NextResolve == \E r \in Workers : FetchVoices(r, ResolveCatalogs)

SpecResolve == InitResolve /\ [][NextResolve]_vars


\* ------------------------------------------------------------------ claims

\* the request of worker r has been answered
Answered(r) == pc[r] = "done"

\* worker r has fetched a catalog
Fetched(r) == eng[r].list = 1 /\ eng[r].catalog.ok

\* C1: once a /tts request that reached the synthesis step has returned, its
\* transient audio file no longer exists, whether synthesis succeeded, the
\* render call raised, or reading the rendered file raised.
C1_TransientFileRemoved ==
    \A r \in Workers :
        Answered(r) /\ eng[r].synth \in {"ok", "render_error", "read_error"}
            => tmp[r] # "exists"

\* the catalog positions whose lowercased id contains the normalized parameter
ExplicitMatches(voice_param, catalog) ==
    { i \in 1..Len(catalog) :
        Contains(Strip(RemoveAll(Lower(voice_param), NEURAL)), Lower(catalog[i].ShortName)) }

\* C2: with a non-empty voice parameter the selected voice is the id of the
\* first catalog entry, in fetched order, whose lowercased id contains the
\* normalized parameter, and the default voice when no entry does, whatever
\* lang, gender and country are.
C2_ExplicitIdPath ==
    \A r \in Workers :
        Fetched(r) /\ Truthy(req[r].voice) =>
            LET catalog == eng[r].catalog.voices
                m == ExplicitMatches(req[r].voice.s, catalog)
            IN /\ pc[r] = "generate"
               /\ IF m = {} THEN sel[r] = DefaultVoice
                  ELSE \E i \in m : /\ \A j \in m : i <= j
                                    /\ sel[r] = catalog[i].ShortName

\* C2 witness: an explicit id that matches no entry, with filters that match
\* an entry other than the default voice, resolved to the default voice.
C2_Witness ==
    \E r \in Workers :
        /\ Fetched(r) /\ Truthy(req[r].voice) /\ Truthy(req[r].lang)
        /\ ExplicitMatches(req[r].voice.s, eng[r].catalog.voices) = {}
        /\ \E i \in 1..Len(eng[r].catalog.voices) :
              /\ StartsWith(Lower(eng[r].catalog.voices[i].Locale), Lower(req[r].lang.s))
              /\ eng[r].catalog.voices[i].ShortName # DefaultVoice
        /\ \A i \in 1..Len(eng[r].catalog.voices) :
              eng[r].catalog.voices[i].ShortName # DefaultVoice
        /\ pc[r] = "generate"
        /\ sel[r] = DefaultVoice

\* entry v satisfies every supplied filter
Satisfies(v, lang, gender, country) ==
    /\ Truthy(lang) => StartsWith(Lower(v.Locale), Lower(lang.s))
    /\ Truthy(gender) => Lower(v.Gender) = Lower(gender.s)
    /\ Truthy(country) => Lower(LastSegment(v.Locale, "-")) = Lower(country.s)

\* C3: for every catalog and every combination of parameters voice selection
\* yields a voice id and does not fail; without an explicit id and with a
\* filter supplied, the id is that of a catalog entry satisfying all supplied
\* filters, or the default voice when no entry does; with no parameter at all
\* it is the default voice.
C3_FilterPathTotal ==
    \A r \in Workers :
        Fetched(r) =>
            LET catalog == eng[r].catalog.voices
                q == req[r]
                good == { i \in 1..Len(catalog) :
                            Satisfies(catalog[i], q.lang, q.gender, q.country) }
            IN /\ pc[r] = "generate"
               /\ Len(sel[r]) > 0
               /\ (~Truthy(q.voice) /\ (Truthy(q.lang) \/ Truthy(q.gender) \/ Truthy(q.country)))
                     => IF good = {} THEN sel[r] = DefaultVoice
                        ELSE \E i \in good : sel[r] = catalog[i].ShortName
               /\ (~Truthy(q.voice) /\ ~Truthy(q.lang) /\ ~Truthy(q.gender) /\ ~Truthy(q.country))
                     => sel[r] = DefaultVoice

\* C3 witness: two filters supplied, each matched by an entry that fails the
\* other one, and the voice selected is one that satisfies both.
C3_Witness ==
    \E r \in Workers :
        /\ Fetched(r) /\ pc[r] = "generate"
        /\ ~Truthy(req[r].voice) /\ Truthy(req[r].gender) /\ Truthy(req[r].country)
        /\ LET catalog == eng[r].catalog.voices
               q == req[r]
           IN /\ \E i \in 1..Len(catalog) :
                    /\ Satisfies(catalog[i], q.lang, q.gender, None)
                    /\ ~Satisfies(catalog[i], q.lang, q.gender, q.country)
              /\ \E i \in 1..Len(catalog) :
                    /\ Satisfies(catalog[i], q.lang, None, q.country)
                    /\ ~Satisfies(catalog[i], q.lang, q.gender, q.country)
              /\ \E i \in 1..Len(catalog) :
                    /\ Satisfies(catalog[i], q.lang, q.gender, q.country)
                    /\ sel[r] = catalog[i].ShortName
                    /\ sel[r] # DefaultVoice

\* C4: every complete record in the store has total = api + ui.
C4_TotalIsSum ==
    store.kind = "record" => store.rec.total = store.rec.api + store.rec.ui

\* C4 witness: the store holds the record of one API and one UI increment.
C4_Witness == store = Record([total |-> 2, api |-> 1, ui |-> 1])

\* C5: when an increment fails (updating the fields, opening the store for
\* writing, or writing the record), the store holds what it held before the
\* increment began.
C5_FailedIncrementLeavesStore ==
    \A r \in Workers :
        fault[r] \in {"update", "open", "write"} => store = settled

\* C6: a request with missing or empty text is answered 400 with the error
\* body "Missing 'text' parameter"; the store is as it was before the
\* request, the engine was not called and no transient file was created.
C6_MissingTextNoEffects ==
    \A r \in Workers :
        Answered(r) /\ ~Truthy(req[r].text) =>
            /\ resp[r] = MissingTextResponse
            /\ store = settled
            /\ fault[r] = "none"
            /\ eng[r].list = 0 /\ eng[r].render = 0
            /\ tmp[r] = "none"

\* C6 witness: a request with empty text answered 400 after an earlier
\* request was counted.
C6_Witness ==
    \E r \in Workers :
        /\ Answered(r) /\ req[r].text = Str(<<>>)
        /\ resp[r].status = 400
        /\ settled.kind = "record" /\ settled.rec.total > 0

\* the catalog fetch of worker r failed
FetchFailed(r) == eng[r].list = 1 /\ ~eng[r].catalog.ok

\* C7 as claimed: a request whose catalog fetch fails is answered 500 "TTS
\* Engine unavailable", the usage counters are as they were before the
\* request, no transient file was created and no render call was made.
C7_FetchFailureCommitsNothing ==
    \A r \in Workers :
        Answered(r) /\ FetchFailed(r) =>
            /\ resp[r] = UnavailableResponse
            /\ store = settled
            /\ eng[r].render = 0
            /\ tmp[r] = "none"

\* C7 amended: a request whose catalog fetch fails is answered 500 "TTS Engine
\* unavailable", creates no transient file and makes no render call; its
\* increment has already run, and when it did not fail (and no other request
\* was in progress) the store holds the record loaded before the request with
\* total and the field of the request's origin class increased by one.
C7_FetchFailureAfterIncrement ==
    \A r \in Workers :
        Answered(r) /\ FetchFailed(r) =>
            /\ resp[r] = UnavailableResponse
            /\ eng[r].render = 0
            /\ tmp[r] = "none"
            /\ fault[r] = "none" =>
                  /\ settled.kind \in {"absent", "record"}
                  /\ store.kind = "record"
                  /\ store.rec.total = settled.rec.total + 1
                  /\ store.rec.api = settled.rec.api + (IF mode[r] = "API" THEN 1 ELSE 0)
                  /\ store.rec.ui = settled.rec.ui + (IF mode[r] = "UI" THEN 1 ELSE 0)

\* C7 witness: a UI request whose fetch failed, answered 500, counted on top
\* of an earlier record.
C7_Witness ==
    \E r \in Workers :
        /\ Answered(r) /\ FetchFailed(r) /\ fault[r] = "none" /\ mode[r] = "UI"
        /\ resp[r].status = 500
        /\ settled.kind = "record" /\ settled.rec.total = 1
        /\ store.kind = "record" /\ store.rec.total = 2

\* the request of worker r and the last retired request had the same text and
\* parameters and met the same engine behaviour
SameCase(r) ==
    /\ last.valid
    /\ last.req = req[r]
    /\ last.eng.catalog = eng[r].catalog
    /\ last.eng.synth = eng[r].synth

\* C8: a failure of the statistics store is not surfaced: a request with text
\* reaches the engine whatever its increment did, and two requests with the
\* same text and parameters that meet the same engine behaviour get the same
\* status and body, make the same engine calls and, where voice selection
\* has one outcome, the same X-Voice-Used, whether or not their increments
\* failed.
C8_StatsFailureInvisible ==
    \A r \in Workers :
        Answered(r) /\ Truthy(req[r].text) =>
            /\ eng[r].list = 1
            /\ resp[r] # UnhandledResponse
            /\ SameCase(r) =>
                  /\ resp[r].status = last.resp.status
                  /\ resp[r].body = last.resp.body
                  /\ eng[r].list = last.eng.list
                  /\ eng[r].render = last.eng.render
                  /\ tmp[r] = last.tmp
                  /\ \/ resp[r].voice = last.resp.voice
                     \/ Cardinality(SelectVoice(eng[r].catalog.voices, req[r].voice, req[r].lang,
                                                req[r].gender, req[r].country)) > 1

\* C8 witness: a request whose increment failed while writing, answered 200
\* like the retired request with the same inputs whose increment succeeded.
C8_Witness ==
    \E r \in Workers :
        /\ Answered(r) /\ Truthy(req[r].text) /\ SameCase(r)
        /\ fault[r] = "write" /\ last.fault = "none"
        /\ resp[r].status = 200 /\ resp[r] = last.resp

\* the record worker r loaded: its local stats before the increments
PreRecord(r) ==
    [total |-> stats[r].total - 1,
     api |-> stats[r].api - (IF mode[r] = "API" THEN 1 ELSE 0),
     ui |-> stats[r].ui - (IF mode[r] = "UI" THEN 1 ELSE 0)]

\* C9: while one request is between opening the store for writing and the
\* end of its write, and no other request is writing, a load of the store
\* (load_stats, as called by save_stats and by admin_panel) returns the
\* record from before the increment or the record after it.
C9_AtomicOverwrite ==
    \A r \in Workers :
        (pc[r] = "stats_write" /\ \A o \in Workers \ {r} : ~InIncrement(o))
            => LoadStats(store, TRUE).rec \in {PreRecord(r), stats[r]}

\* save_stats has returned in the request of worker r
Counted(r) == pc[r] \in {"fetch", "generate", "done"} /\ Truthy(req[r].text)

CountedAs(m) == Cardinality({r \in Workers : Counted(r) /\ mode[r] = m})

\* no save_stats call is in progress and none met a failure
IncrementsSettled ==
    /\ \A r \in Workers : pc[r] \notin {"stats_load", "stats_open", "stats_write"}
    /\ \A r \in Workers : fault[r] = "none"
    /\ CountedAs("API") + CountedAs("UI") > 0

\* C10: after increments none of which met a persistence failure, the store
\* holds a record whose total is at least 1 and at most the number of
\* increments; when no two increments overlapped, total has grown by the
\* number of increments and api and ui by the number of API and UI requests.
C10_Increments ==
    IncrementsSettled =>
        /\ store.kind = "record"
        /\ store.rec.total >= 1
        /\ store.rec.total <= settled.rec.total + CountedAs("API") + CountedAs("UI")
        /\ ~overlapped =>
              store.rec = [total |-> settled.rec.total + CountedAs("API") + CountedAs("UI"),
                           api |-> settled.rec.api + CountedAs("API"),
                           ui |-> settled.rec.ui + CountedAs("UI")]

\* C10 witness: a lost update: two requests counted, no failure, total 1.
C10_Witness ==
    /\ IncrementsSettled
    /\ CountedAs("API") + CountedAs("UI") = 2
    /\ overlapped
    /\ store.rec.total = 1

====
